---- MODULE Spec2Model ----
(***************************************************************************)
(* The hotel example of python-clean-architecture: the in-memory           *)
(* DataInterfaceStub (operations/interface.py) and the room, customer and  *)
(* booking operations built on it (operations/room.py, customer.py,        *)
(* booking.py).                                                            *)
(*                                                                         *)
(* A stub's `data` dict is a sequence of entries [k |-> key, v |-> value]  *)
(* in the dict's iteration order.  A DataObject (a Python dict of fields)  *)
(* is a function from field names to values.  Dates are day ordinals, so   *)
(* (to_date - from_date).days is integer subtraction.  An Optional field   *)
(* is <<>> for None and <<x>> for the value x.                             *)
(***************************************************************************)
EXTENDS Integers, Sequences, FiniteSets, TLC

\* ---------------------------------------------------------------- bounds
MaxIssued == 2        \* uuid4 values drawn in one behaviour
MaxDay == 2           \* dates range over the day ordinals 0..MaxDay

\* ------------------------------------------------------------ input sets
UuidName == <<"u1", "u2", "u3", "u4", "u5", "u6">>
UuidPool == {UuidName[i] : i \in 1..MaxIssued}
ManualIds == {"room-1", "room-2", "room-3"}
Numbers == {"101", "102"}
Sizes == {2, 4}
Prices == {100, 150}
Names == {"ann"}
Emails == {"ann@example.com"}
Dates == 0..MaxDay

RoomFields == {"id", "number", "size", "price"}
CustomerFields == {"id", "name", "email"}
BookingFields == {"id", "room_id", "customer_id", "from_date", "to_date", "price"}

VARIABLES
    room_store,       \* DataInterfaceStub().data of the room store
    customer_store,   \* DataInterfaceStub().data of the customer store
    booking_store,    \* DataInterfaceStub().data of the booking store
    issued,           \* the values uuid4 has returned so far
    last,             \* the last call: op, id, input, outcome, ret
    created,          \* per store: the ids returned by a create on it
    quoted,           \* booking id -> the price create_booking returned
    first_seen,       \* per store: ids in the order of their first insertion ever
    live_order        \* per store: live ids in the order they last became live

vars == <<room_store, customer_store, booking_store, issued, last,
          created, quoted, first_seen, live_order>>

Kinds == {"room", "customer", "booking"}

\* ------------------------------------------------------- dict primitives
Keys(d) == {d[i].k : i \in DOMAIN d}

IndexOf(d, id) == CHOOSE i \in DOMAIN d : d[i].k = id

Get(d, id) == d[IndexOf(d, id)].v

Range(s) == {s[i] : i \in DOMAIN s}

\* mutant of DictUpdate: the stored fields win over the supplied ones
DictUpdate_old_wins(old, new) ==
    [f \in (DOMAIN old) \cup (DOMAIN new) |->
        IF f \in DOMAIN old THEN old[f] ELSE new[f]]

\* dict.update(other): a shallow field-level overwrite
DictUpdate(old, new) ==
    [f \in (DOMAIN old) \cup (DOMAIN new) |->
        IF f \in DOMAIN new THEN new[f] ELSE old[f]]

\* mutant of SetItem: an existing key keeps its first value (setdefault)
SetItem_keep_first(d, key, value) ==
    IF key \in Keys(d) THEN d ELSE Append(d, [k |-> key, v |-> value])

\* mutant of SetItem: an overwritten key moves to the end
SetItem_move_to_end(d, key, value) ==
    Append(SelectSeq(d, LAMBDA e : e.k # key), [k |-> key, v |-> value])

\* d[key] = value: an existing key keeps its place, a new key goes last
SetItem(d, key, value) ==
    IF key \in Keys(d)
    THEN [d EXCEPT ![IndexOf(d, key)] = [k |-> key, v |-> value]]
    ELSE Append(d, [k |-> key, v |-> value])

\* del d[key]
DelItem(d, key) == SelectSeq(d, LAMBDA e : e.k # key)

\* the outcome of a call on a store: what it returns or raises, and the
\* store's data afterwards
Ok(ret, d) == [outcome |-> "ok", ret |-> ret, data |-> d]
Raise(d) == [outcome |-> "KeyError", ret |-> "KeyError", data |-> d]

\* --------------------------------------------------- DataInterfaceStub
read_by_id(d, id) ==
    IF id \notin Keys(d) THEN Raise(d) ELSE Ok(Get(d, id), d)

read_all(d) == Ok([i \in DOMAIN d |-> d[i].v], d)

\* mutant of create: the record is returned but never stored
create_unstored(d, data) == Ok(data, d)

create(d, data) == Ok(data, SetItem(d, data["id"], data))

update(d, id, data) ==
    IF id \notin Keys(d)
    THEN Raise(d)
    ELSE LET merged == DictUpdate(Get(d, id), data)
         IN  Ok(merged, [d EXCEPT ![IndexOf(d, id)].v = merged])

\* mutant of delete: an absent id is ignored (dict.pop(id, None))
delete_silent(d, id) == Ok("None", DelItem(d, id))

\* mutant of delete: the id is checked but the record is left in place
delete_noop(d, id) ==
    IF id \notin Keys(d) THEN Raise(d) ELSE Ok("None", d)

delete(d, id) ==
    IF id \notin Keys(d) THEN Raise(d) ELSE Ok("None", DelItem(d, id))

\* ------------------------------------------------------ pydantic models
\* Model(**dict): the model's fields taken from the dict
Room(d) == [f \in RoomFields |-> d[f]]
Customer(d) == [f \in CustomerFields |-> d[f]]
Booking(d) == [f \in BookingFields |-> d[f]]

RoomCreate == [number : Numbers, size : Sizes, price : Prices]
CustomerCreate == [name : Names, email : Emails]

Opt(S) == {<<>>} \cup {<<x>> : x \in S}
RoomUpdate == [number : Opt(Numbers), size : Opt(Sizes), price : Opt(Prices)]

\* model_dump(): the model as a dict
model_dump(m) == m

\* mutant of model_dump_exclude_none: the update model also carries an id
\* field, which the caller has set
model_dump_exclude_none_with_id(m) ==
    [f \in {g \in DOMAIN m : m[g] # <<>>} \cup {"id"} |->
        IF f = "id" THEN "room-1" ELSE m[f][1]]

\* model_dump(exclude_none=True): the fields that are not None, unwrapped
model_dump_exclude_none(m) ==
    [f \in {g \in DOMAIN m : m[g] # <<>>} |-> m[f][1]]

\* dict[key] = value on a fresh dict
With(d, key, value) ==
    [f \in (DOMAIN d) \cup {key} |-> IF f = key THEN value ELSE d[f]]

\* mutant of uuid4: every call returns the same token
uuid4_fixed == {UuidName[1]}

\* str(uuid.uuid4()): the values a call can return.  A uuid4 is a token no
\* earlier call returned; the tokens are opaque (nothing in the program
\* compares or orders them), so the model names them in the order drawn.
uuid4 == {u \in UuidPool : u = UuidName[Cardinality(issued) + 1]}

\* ------------------------------------------------------ operations/room
read_all_rooms(data_interface) ==
    LET r == read_all(data_interface)
    IN  Ok([i \in DOMAIN r.ret |-> Room(r.ret[i])], r.data)

read_room(room_id, data_interface) ==
    LET r == read_by_id(data_interface, room_id)
    IN  IF r.outcome # "ok" THEN r ELSE Ok(Room(r.ret), r.data)

create_room(data, data_interface, new_id) ==
    LET room_data == With(model_dump(data), "id", new_id)
        c == create(data_interface, room_data)
    IN  Ok(Room(c.ret), c.data)

update_room(room_id, data, data_interface) ==
    LET update_data == model_dump_exclude_none(data)
        u == update(data_interface, room_id, update_data)
    IN  IF u.outcome # "ok" THEN u ELSE Ok(Room(u.ret), u.data)

delete_room(room_id, data_interface) == delete(data_interface, room_id)

\* -------------------------------------------------- operations/customer
read_all_customers(data_interface) ==
    LET r == read_all(data_interface)
    IN  Ok([i \in DOMAIN r.ret |-> Customer(r.ret[i])], r.data)

read_customer(customer_id, data_interface) ==
    LET r == read_by_id(data_interface, customer_id)
    IN  IF r.outcome # "ok" THEN r ELSE Ok(Customer(r.ret), r.data)

create_customer(data, data_interface, new_id) ==
    LET customer_data == With(model_dump(data), "id", new_id)
        c == create(data_interface, customer_data)
    IN  Ok(Customer(c.ret), c.data)

delete_customer(customer_id, data_interface) == delete(data_interface, customer_id)

\* --------------------------------------------------- operations/booking
\* mutant of create_booking: a stay that does not end after it starts is
\* rejected (the InvalidDateError validation the module docstring leaves out)
create_booking_validated(data, data_interface, room_interface, new_id) ==
    LET room == read_by_id(room_interface, data.room_id)
    IN  IF room.outcome # "ok"
        THEN Raise(data_interface)
        ELSE IF data.to_date <= data.from_date
        THEN [outcome |-> "InvalidDateError", ret |-> "InvalidDateError",
              data |-> data_interface]
        ELSE LET nights == data.to_date - data.from_date
                 price == nights * room.ret["price"]
                 booking_data ==
                     With(With(model_dump(data), "id", new_id), "price", price)
                 c == create(data_interface, booking_data)
             IN  Ok(Booking(c.ret), c.data)

\* mutant of create_booking: the last day is counted as a night
create_booking_inclusive(data, data_interface, room_interface, new_id) ==
    LET room == read_by_id(room_interface, data.room_id)
    IN  IF room.outcome # "ok"
        THEN Raise(data_interface)
        ELSE LET nights == data.to_date - data.from_date + 1
                 price == nights * room.ret["price"]
                 booking_data ==
                     With(With(model_dump(data), "id", new_id), "price", price)
                 c == create(data_interface, booking_data)
             IN  Ok(Booking(c.ret), c.data)

\* mutant of create_booking: the booking is stored before the room is looked up
create_booking_write_first(data, data_interface, room_interface, new_id) ==
    LET booking_data == With(With(model_dump(data), "id", new_id), "price", 0)
        c == create(data_interface, booking_data)
        room == read_by_id(room_interface, data.room_id)
    IN  IF room.outcome # "ok"
        THEN Raise(c.data)
        ELSE LET nights == data.to_date - data.from_date
                 price == nights * room.ret["price"]
                 priced == update(c.data, new_id, [price |-> price])
             IN  Ok(Booking(priced.ret), priced.data)

create_booking(data, data_interface, room_interface, new_id) ==
    LET room == read_by_id(room_interface, data.room_id)
    IN  IF room.outcome # "ok"
        THEN Raise(data_interface)
        ELSE LET nights == data.to_date - data.from_date
                 price == nights * room.ret["price"]
                 booking_data ==
                     With(With(model_dump(data), "id", new_id), "price", price)
                 c == create(data_interface, booking_data)
             IN  Ok(Booking(c.ret), c.data)

read_all_bookings(data_interface) ==
    LET r == read_all(data_interface)
    IN  Ok([i \in DOMAIN r.ret |-> Booking(r.ret[i])], r.data)

\* mutant of read_booking: the price is recomputed from the room's current price
read_booking_repriced(booking_id, data_interface) ==
    LET r == read_by_id(data_interface, booking_id)
    IN  IF r.outcome # "ok"
        THEN r
        ELSE IF r.ret["room_id"] \in Keys(room_store)
             THEN Ok(Booking(With(r.ret, "price",
                         (r.ret["to_date"] - r.ret["from_date"])
                             * Get(room_store, r.ret["room_id"])["price"])), r.data)
             ELSE Ok(Booking(r.ret), r.data)

read_booking(booking_id, data_interface) ==
    LET r == read_by_id(data_interface, booking_id)
    IN  IF r.outcome # "ok" THEN r ELSE Ok(Booking(r.ret), r.data)

delete_booking(booking_id, data_interface) == delete(data_interface, booking_id)

\* ------------------------------------------------------------ the state
Store(kind) ==
    CASE kind = "room" -> room_store
      [] kind = "customer" -> customer_store
      [] kind = "booking" -> booking_store

\* the ids a caller asks for: every id some store holds, and one that no
\* store ever held (the stub treats all absent ids alike)
LookupIds ==
    Keys(room_store) \cup Keys(customer_store) \cup Keys(booking_store)
        \cup {"nonexistent"}

CustomerIds == Keys(customer_store) \cup {"cust-1"}

BookingCreate ==
    [room_id : LookupIds, customer_id : CustomerIds,
     from_date : Dates, to_date : Dates]

Call(op, id, input, res) ==
    [op |-> op, id |-> id, input |-> input, outcome |-> res.outcome, ret |-> res.ret]

\* first_seen after a call that left the store's data as d
TrackFirst(seen, d) ==
    LET new == Keys(d) \ Range(seen)
    IN  IF new = {} THEN seen ELSE Append(seen, CHOOSE x \in new : TRUE)

\* live_order after a call that took the store's data from d to e
TrackLive(order, d, e) ==
    LET kept == SelectSeq(order, LAMBDA x : x \in Keys(e))
        new == Keys(e) \ Keys(d)
    IN  IF new = {} THEN kept ELSE Append(kept, CHOOSE x \in new : TRUE)

\* the stores and their insertion histories after a call on the store `kind`
Commit(kind, res) ==
    /\ room_store' = IF kind = "room" THEN res.data ELSE room_store
    /\ customer_store' = IF kind = "customer" THEN res.data ELSE customer_store
    /\ booking_store' = IF kind = "booking" THEN res.data ELSE booking_store
    /\ first_seen' = [first_seen EXCEPT ![kind] = TrackFirst(@, res.data)]
    /\ live_order' = [live_order EXCEPT ![kind] = TrackLive(@, Store(kind), res.data)]

Init ==
    /\ room_store = <<>>
    /\ customer_store = <<>>
    /\ booking_store = <<>>
    /\ issued = {}
    /\ last = [op |-> "init", id |-> "", input |-> "", outcome |-> "ok", ret |-> "None"]
    /\ created = [k \in Kinds |-> {}]
    /\ quoted = <<>>
    /\ first_seen = [k \in Kinds |-> <<>>]
    /\ live_order = [k \in Kinds |-> <<>>]

\* ---------------------------------------------------------- room actions
CreateRoom ==
    \E data \in RoomCreate, new_id \in uuid4 :
        LET res == create_room(data, room_store, new_id)
        IN  /\ Commit("room", res)
            /\ issued' = issued \cup {new_id}
            /\ last' = Call("create_room", "", data, res)
            /\ created' = [created EXCEPT !["room"] = @ \cup {res.ret["id"]}]
            /\ UNCHANGED quoted

ReadRoom ==
    \E room_id \in LookupIds :
        LET res == read_room(room_id, room_store)
        IN  /\ Commit("room", res)
            /\ last' = Call("read_room", room_id, "", res)
            /\ UNCHANGED <<issued, created, quoted>>

ReadAllRooms ==
    LET res == read_all_rooms(room_store)
    IN  /\ Commit("room", res)
        /\ last' = Call("read_all_rooms", "", "", res)
        /\ UNCHANGED <<issued, created, quoted>>

UpdateRoom ==
    \E room_id \in LookupIds, data \in RoomUpdate :
        LET res == update_room(room_id, data, room_store)
        IN  /\ Commit("room", res)
            /\ last' = Call("update_room", room_id, data, res)
            /\ UNCHANGED <<issued, created, quoted>>

DeleteRoom ==
    \E room_id \in LookupIds :
        LET res == delete_room(room_id, room_store)
        IN  /\ Commit("room", res)
            /\ last' = Call("delete_room", room_id, "", res)
            /\ UNCHANGED <<issued, created, quoted>>

\* ------------------------------------------------------ customer actions
CreateCustomer ==
    \E data \in CustomerCreate, new_id \in uuid4 :
        LET res == create_customer(data, customer_store, new_id)
        IN  /\ Commit("customer", res)
            /\ issued' = issued \cup {new_id}
            /\ last' = Call("create_customer", "", data, res)
            /\ created' = [created EXCEPT !["customer"] = @ \cup {res.ret["id"]}]
            /\ UNCHANGED quoted

ReadCustomer ==
    \E customer_id \in LookupIds :
        LET res == read_customer(customer_id, customer_store)
        IN  /\ Commit("customer", res)
            /\ last' = Call("read_customer", customer_id, "", res)
            /\ UNCHANGED <<issued, created, quoted>>

ReadAllCustomers ==
    LET res == read_all_customers(customer_store)
    IN  /\ Commit("customer", res)
        /\ last' = Call("read_all_customers", "", "", res)
        /\ UNCHANGED <<issued, created, quoted>>

DeleteCustomer ==
    \E customer_id \in LookupIds :
        LET res == delete_customer(customer_id, customer_store)
        IN  /\ Commit("customer", res)
            /\ last' = Call("delete_customer", customer_id, "", res)
            /\ UNCHANGED <<issued, created, quoted>>

\* ------------------------------------------------------- booking actions
\* uuid4 is called only once the room has been found (booking.py:23, 28)
CreateBooking ==
    \E data \in BookingCreate :
        \E new_id \in (IF data.room_id \in Keys(room_store) THEN uuid4 ELSE {""}) :
            LET res == create_booking(data, booking_store, room_store, new_id)
            IN  /\ Commit("booking", res)
                /\ last' = Call("create_booking", "", data, res)
                /\ IF res.outcome = "ok"
                   THEN /\ issued' = issued \cup {new_id}
                        /\ created' = [created EXCEPT !["booking"] = @ \cup {res.ret["id"]}]
                        /\ quoted' = With(quoted, res.ret["id"], res.ret["price"])
                   ELSE UNCHANGED <<issued, created, quoted>>

ReadBooking ==
    \E booking_id \in LookupIds :
        LET res == read_booking(booking_id, booking_store)
        IN  /\ Commit("booking", res)
            /\ last' = Call("read_booking", booking_id, "", res)
            /\ UNCHANGED <<issued, created, quoted>>

ReadAllBookings ==
    LET res == read_all_bookings(booking_store)
    IN  /\ Commit("booking", res)
        /\ last' = Call("read_all_bookings", "", "", res)
        /\ UNCHANGED <<issued, created, quoted>>

\* quoted forgets a booking once it is deleted
Without(f, key) == [x \in (DOMAIN f) \ {key} |-> f[x]]

DeleteBooking ==
    \E booking_id \in LookupIds :
        LET res == delete_booking(booking_id, booking_store)
        IN  /\ Commit("booking", res)
            /\ last' = Call("delete_booking", booking_id, "", res)
            /\ quoted' = IF res.outcome = "ok" THEN Without(quoted, booking_id) ELSE quoted
            /\ UNCHANGED <<issued, created>>

Next ==
    \/ CreateRoom \/ ReadRoom \/ ReadAllRooms \/ UpdateRoom \/ DeleteRoom
    \/ CreateCustomer \/ ReadCustomer \/ ReadAllCustomers \/ DeleteCustomer
    \/ CreateBooking \/ ReadBooking \/ ReadAllBookings \/ DeleteBooking

Spec == Init /\ [][Next]_vars

\* ------------------------------------------- the stub called directly
\* A DataInterfaceStub driven through its own five methods, as the tests
\* drive the room stub: records keyed by the caller (tests/test_rooms.py).
StubRooms ==
    {[number |-> "101", size |-> 2, price |-> 150],
     [number |-> "102", size |-> 4, price |-> 250]}

StubPatches == {[price |-> 200]}

StubIds == ManualIds \cup {"nonexistent"}

StubCreate ==
    \E room \in StubRooms, id \in ManualIds :
        LET data == With(room, "id", id)
            res == create(room_store, data)
        IN  /\ Commit("room", res)
            /\ last' = Call("stub_create", id, data, res)
            /\ created' = [created EXCEPT !["room"] = @ \cup {res.ret["id"]}]
            /\ UNCHANGED <<issued, quoted>>

StubReadById ==
    \E id \in StubIds :
        LET res == read_by_id(room_store, id)
        IN  /\ Commit("room", res)
            /\ last' = Call("stub_read_by_id", id, "", res)
            /\ UNCHANGED <<issued, created, quoted>>

StubReadAll ==
    LET res == read_all(room_store)
    IN  /\ Commit("room", res)
        /\ last' = Call("stub_read_all", "", "", res)
        /\ UNCHANGED <<issued, created, quoted>>

StubUpdate ==
    \E id \in StubIds, data \in StubPatches :
        LET res == update(room_store, id, data)
        IN  /\ Commit("room", res)
            /\ last' = Call("stub_update", id, data, res)
            /\ UNCHANGED <<issued, created, quoted>>

StubDelete ==
    \E id \in StubIds :
        LET res == delete(room_store, id)
        IN  /\ Commit("room", res)
            /\ last' = Call("stub_delete", id, "", res)
            /\ UNCHANGED <<issued, created, quoted>>

NextStub ==
    \/ StubCreate \/ StubReadById \/ StubReadAll \/ StubUpdate \/ StubDelete
    \/ ReadAllRooms

SpecStub == Init /\ [][NextStub]_vars

\* ============================================================== claims
AllIds == UuidPool \cup ManualIds \cup {"nonexistent", ""}

Nights(data) == data.to_date - data.from_date

\* C1: a successful create_booking for a stay of n >= 0 whole days in a room
\* whose nightly price is P returns a Booking priced n * P, and the record
\* stored under the returned id carries the same price.
C1_PriceIsNightsTimesRate ==
    (last.op = "create_booking" /\ last.outcome = "ok" /\ Nights(last.input) >= 0) =>
        LET n == Nights(last.input)
            P == Get(room_store, last.input.room_id)["price"]
            id == last.ret["id"]
        IN  /\ last.ret["price"] = n * P
            /\ id \in Keys(booking_store)
            /\ Get(booking_store, id)["price"] = n * P

C1_Witness ==
    /\ last.op = "create_booking"
    /\ last.outcome = "ok"
    /\ Nights(last.input) = 2
    /\ last.ret["price"] = 300

\* C2: create_booking for a room_id that the room store does not hold raises
\* KeyError and leaves the booking store, the room store and the customer
\* store exactly as they were.
C2_RoomNotFoundBeforeWrite ==
    [][(last'.op = "create_booking" /\ last'.input.room_id \notin Keys(room_store)) =>
          /\ last'.outcome = "KeyError"
          /\ booking_store' = booking_store
          /\ room_store' = room_store
          /\ customer_store' = customer_store]_vars

C2_Witness ==
    /\ last.op = "create_booking"
    /\ last.outcome = "KeyError"
    /\ booking_store # <<>>
    /\ room_store # <<>>

\* C3: while a booking is in the booking store, read_booking returns the price
\* that create_booking returned for it, whatever room, customer and other
\* booking operations have run since.
C3_PriceFrozen ==
    \A b \in DOMAIN quoted :
        LET r == read_booking(b, booking_store)
        IN  r.outcome = "ok" /\ r.ret["price"] = quoted[b]

C3_Witness ==
    /\ last.op = "update_room"
    /\ last.outcome = "ok"
    /\ \E b \in DOMAIN quoted :
          LET rec == Get(booking_store, b)
          IN  /\ rec["room_id"] = last.id
              /\ Nights(rec) = 1
              /\ quoted[b] # Get(room_store, last.id)["price"]

\* C4: update_room on a room the store holds sets exactly the fields of the
\* RoomUpdate that are not None and keeps the others, the id included; it
\* returns the stored record as it is after the merge; every other room and
\* every other store is unchanged.
C4_PartialUpdate ==
    [][(last'.op = "update_room" /\ last'.id \in Keys(room_store)) =>
          LET old == Get(room_store, last'.id)
              new == Get(room_store', last'.id)
          IN  /\ last'.outcome = "ok"
              /\ [i \in DOMAIN room_store' |-> room_store'[i].k]
                     = [i \in DOMAIN room_store |-> room_store[i].k]
              /\ DOMAIN new = DOMAIN old
              /\ new["id"] = old["id"]
              /\ \A f \in {"number", "size", "price"} :
                     new[f] = IF last'.input[f] # <<>> THEN last'.input[f][1] ELSE old[f]
              /\ last'.ret = new
              /\ \A k \in Keys(room_store) \ {last'.id} :
                     Get(room_store', k) = Get(room_store, k)
              /\ customer_store' = customer_store
              /\ booking_store' = booking_store]_vars

C4_Witness ==
    /\ last.op = "update_room"
    /\ last.outcome = "ok"
    /\ last.input = [number |-> <<>>, size |-> <<>>, price |-> <<100>>]
    /\ Len(room_store) = 2
    /\ last.ret["number"] = "101"
    /\ last.ret["size"] = 2
    /\ \E k \in Keys(room_store) : Get(room_store, k)["price"] = 150

\* the operations of each entity kind
KindOf(op) ==
    CASE op \in {"create_room", "read_room", "update_room", "delete_room"} -> "room"
      [] op \in {"create_customer", "read_customer", "delete_customer"} -> "customer"
      [] op \in {"create_booking", "read_booking", "delete_booking"} -> "booking"

CreateOps == {"create_room", "create_customer", "create_booking"}
DeleteOps == {"delete_room", "delete_customer", "delete_booking"}

ReadOp(kind, id, d) ==
    CASE kind = "room" -> read_room(id, d)
      [] kind = "customer" -> read_customer(id, d)
      [] kind = "booking" -> read_booking(id, d)

DeleteOp(kind, id, d) ==
    CASE kind = "room" -> delete_room(id, d)
      [] kind = "customer" -> delete_customer(id, d)
      [] kind = "booking" -> delete_booking(id, d)

StoreNext(kind) ==
    CASE kind = "room" -> room_store'
      [] kind = "customer" -> customer_store'
      [] kind = "booking" -> booking_store'

\* C5: for each entity kind and every id that no create on that store has
\* returned, read, delete and (for rooms) update raise KeyError, exactly as
\* the stub raises it, and leave the store as it was.
C5_NotFoundUniversal ==
    \A kind \in Kinds :
        \A id \in AllIds \ created[kind] :
            LET d == Store(kind)
                rd == ReadOp(kind, id, d)
                dl == DeleteOp(kind, id, d)
            IN  /\ read_by_id(d, id).outcome = "KeyError"
                /\ rd.outcome = "KeyError" /\ rd.data = d
                /\ dl.outcome = "KeyError" /\ dl.data = d
                /\ kind = "room" =>
                      \A data \in RoomUpdate :
                          LET up == update_room(id, data, d)
                          IN  up.outcome = "KeyError" /\ up.data = d

C5_Witness ==
    /\ last.op = "read_room"
    /\ last.outcome = "KeyError"
    /\ last.id \in Keys(customer_store)
    /\ last.id \notin created["room"]
    /\ room_store # <<>>

\* C6: right after a successful create, reading the returned id from the same
\* store returns the returned record; that record is the one stored under the
\* id, carries the caller's fields as given, and adds only the generated id
\* (and the derived price of a booking).
C6_CreateReadRoundTrip ==
    (last.op \in CreateOps /\ last.outcome = "ok") =>
        LET kind == KindOf(last.op)
            d == Store(kind)
            r == last.ret
            rd == ReadOp(kind, r["id"], d)
        IN  /\ r["id"] \in Keys(d)
            /\ Get(d, r["id"]) = r
            /\ rd.outcome = "ok"
            /\ rd.ret = r
            /\ \A f \in DOMAIN last.input : r[f] = last.input[f]
            /\ DOMAIN r = (DOMAIN last.input) \cup {"id"}
                              \cup (IF kind = "booking" THEN {"price"} ELSE {})
            /\ r["id"] \in issued

C6_Witness ==
    /\ last.op = "create_customer"
    /\ last.outcome = "ok"
    /\ room_store # <<>>
    /\ Get(customer_store, last.ret["id"])["name"] = "ann"

\* C7: a successful create_room, create_customer or create_booking stores its
\* record under a non-empty id that no store held and no earlier create
\* returned; the store gains exactly that one record and keeps every record
\* it had; the other stores are unchanged.
C7_FreshIds ==
    [][(last'.op \in CreateOps /\ last'.outcome = "ok") =>
          LET kind == KindOf(last'.op)
              d == Store(kind)
              e == StoreNext(kind)
              id == last'.ret["id"]
          IN  /\ id # ""
              /\ id \notin Keys(d)
              /\ id \notin issued
              /\ \A k \in Kinds : id \notin created[k] /\ id \notin Keys(Store(k))
              /\ Keys(e) = Keys(d) \cup {id}
              /\ Len(e) = Len(d) + 1
              /\ \A k \in Keys(d) : Get(e, k) = Get(d, k)
              /\ \A k \in Kinds \ {kind} : StoreNext(k) = Store(k)]_vars

C7_Witness ==
    /\ last.op = "create_room"
    /\ Len(room_store) = 2
    /\ room_store[1].k # room_store[2].k
    /\ room_store[2].k = last.ret["id"]

\* C8: a delete of an id the store holds removes that record and nothing else:
\* the other records of the store keep their values and order, the other
\* stores are unchanged (bookings of a deleted room or customer stay), and a
\* read or a second delete of the id raises KeyError.
C8_DeleteExactlyOne ==
    [][(last'.op \in DeleteOps /\ last'.id \in Keys(Store(KindOf(last'.op)))) =>
          LET kind == KindOf(last'.op)
              d == Store(kind)
              e == StoreNext(kind)
              id == last'.id
          IN  /\ last'.outcome = "ok"
              /\ Keys(e) = Keys(d) \ {id}
              /\ Len(e) = Len(d) - 1
              /\ \A k \in Keys(e) : Get(e, k) = Get(d, k)
              /\ \A i, j \in DOMAIN d :
                     (i < j /\ d[i].k # id /\ d[j].k # id) =>
                         IndexOf(e, d[i].k) < IndexOf(e, d[j].k)
              /\ \A k \in Kinds \ {kind} : StoreNext(k) = Store(k)
              /\ ReadOp(kind, id, e).outcome = "KeyError"
              /\ DeleteOp(kind, id, e).outcome = "KeyError"]_vars

C8_Witness ==
    /\ last.op = "delete_room"
    /\ last.outcome = "ok"
    /\ \E i \in DOMAIN booking_store : booking_store[i].v["room_id"] = last.id

\* C9: the stub's create with an id the store already holds succeeds and
\* overwrites: the store keeps one record per id, in the same places,
\* read_by_id of the id returns the record just supplied, and the records
\* under the other ids are unchanged.
C9_DuplicateCreateOverwrites ==
    [][(last'.op = "stub_create" /\ last'.id \in Keys(room_store)) =>
          LET rd == read_by_id(room_store', last'.id)
          IN  /\ last'.outcome = "ok"
              /\ last'.ret = last'.input
              /\ [i \in DOMAIN room_store' |-> room_store'[i].k]
                     = [i \in DOMAIN room_store |-> room_store[i].k]
              /\ Cardinality(Keys(room_store')) = Len(room_store')
              /\ rd.outcome = "ok"
              /\ rd.ret = last'.input
              /\ \A k \in Keys(room_store) \ {last'.id} :
                     Get(room_store', k) = Get(room_store, k)]_vars

\* a create whose id is the first of two keys overwrote it: a new key goes last
C9_Witness ==
    /\ last.op = "stub_create"
    /\ last.outcome = "ok"
    /\ Len(room_store) = 2
    /\ room_store[1].k = last.id
    /\ room_store[1].v = last.input
    /\ room_store[1].v["number"] # room_store[2].v["number"]

IdsOf(records) == [i \in DOMAIN records |-> records[i]["id"]]

LiveOf(kind, ids) == SelectSeq(ids, LAMBDA x : x \in Keys(Store(kind)))

\* C10 as stated: read_all lists the live records in the order in which their
\* ids were first inserted.
C10_ReadAllFirstInsertedOrder ==
    \A kind \in Kinds :
        LET d == Store(kind)
            r == read_all(d)
        IN  /\ r.outcome = "ok"
            /\ r.data = d
            /\ IdsOf(r.ret) = LiveOf(kind, first_seen[kind])
            /\ Len(r.ret) = Cardinality(Keys(d))
            /\ \A i \in DOMAIN r.ret : r.ret[i] = Get(d, r.ret[i]["id"])
            /\ \A id \in AllIds : read_by_id(d, id).data = d

\* C10 as amended: read_all never raises and lists each live record once, with
\* its current value, in the order in which the ids last became live (an
\* overwrite or update keeps the place; an id deleted and created again goes
\* last); read_all, read_by_id and read_all_rooms leave the store unchanged.
C10_ReadAllLiveOrder ==
    \A kind \in Kinds :
        LET d == Store(kind)
            r == read_all(d)
        IN  /\ r.outcome = "ok"
            /\ r.data = d
            /\ IdsOf(r.ret) = live_order[kind]
            /\ Len(r.ret) = Cardinality(Keys(d))
            /\ \A i \in DOMAIN r.ret : r.ret[i] = Get(d, r.ret[i]["id"])
            /\ \A id \in AllIds : read_by_id(d, id).data = d
            /\ kind = "room" =>
                  LET rr == read_all_rooms(d)
                  IN  /\ rr.outcome = "ok"
                      /\ rr.data = d
                      /\ IdsOf(rr.ret) = live_order[kind]

C10_Witness ==
    /\ last.op = "stub_read_all"
    /\ last.outcome = "ok"
    /\ Len(last.ret) = 3
    /\ IdsOf(last.ret) # LiveOf("room", first_seen["room"])
    /\ \E i \in DOMAIN last.ret : last.ret[i]["price"] = 200

\* C11: create_booking does not validate the stay: for a room the room store
\* holds and dates with to_date <= from_date (n <= 0 days) the call succeeds,
\* the booking is stored, and its price is n * P (0 for n = 0, negative for
\* n < 0); a create_booking that fails raised KeyError for a missing room.
C11_NoStayValidation ==
    last.op = "create_booking" =>
        /\ (last.input.room_id \in Keys(room_store) /\ Nights(last.input) <= 0) =>
              LET n == Nights(last.input)
                  P == Get(room_store, last.input.room_id)["price"]
              IN  /\ last.outcome = "ok"
                  /\ last.ret["price"] = n * P
                  /\ last.ret["id"] \in Keys(booking_store)
                  /\ Get(booking_store, last.ret["id"]) = last.ret
                  /\ (n = 0 => last.ret["price"] = 0)
                  /\ (n < 0 /\ P > 0 => last.ret["price"] < 0)
        /\ last.outcome # "ok" =>
              /\ last.outcome = "KeyError"
              /\ last.input.room_id \notin Keys(room_store)

C11_Witness ==
    /\ last.op = "create_booking"
    /\ last.outcome = "ok"
    /\ last.input.from_date = 2
    /\ last.input.to_date = 0
    /\ Get(booking_store, last.ret["id"])["price"] = -200

\* every record of every store is filed under the key equal to its id field,
\* and no key occurs twice in a store
KeyIdConsistent ==
    \A kind \in Kinds :
        LET d == Store(kind)
        IN  /\ \A i \in DOMAIN d : d[i].k = d[i].v["id"]
            /\ \A i, j \in DOMAIN d : d[i].k = d[j].k => i = j

\* a record that stays in its store keeps its id
IdStable ==
    \A kind \in Kinds :
        \A k \in Keys(Store(kind)) \cap Keys(StoreNext(kind)) :
            Get(StoreNext(kind), k)["id"] = Get(Store(kind), k)["id"]

\* C12: in every state the entity operations reach from empty stores, each
\* record is stored under the key equal to its own id field and no two live
\* records of a store share an id; and no operation, update_room included,
\* changes the id of a record that stays in its store.
C12_KeyIdConsistency ==
    [][KeyIdConsistent /\ KeyIdConsistent' /\ IdStable]_vars

C12_Witness ==
    /\ last.op = "update_room"
    /\ last.outcome = "ok"
    /\ last.input = [number |-> <<"102">>, size |-> <<4>>, price |-> <<150>>]
    /\ Len(room_store) = 2
    /\ last.ret["id"] = last.id
    /\ room_store[2].k = last.id
    /\ room_store[2].v["id"] = last.id
    /\ room_store[1].v["id"] # last.id

====
